---- MODULE Spec2Model ----
(***************************************************************************)
(* A model of LLM_QA_CLI.py: the text normaliser preprocess_question, the  *)
(* request function get_llm_response and the interactive loop main.        *)
(*                                                                         *)
(* Python strings are TLA+ strings (Len, Head, Tail, SubSeq and \o work on *)
(* them character by character).  Other Python values are tagged records,  *)
(* see PyNone .. PyDict.                                                   *)
(***************************************************************************)
EXTENDS Integers, Sequences, FiniteSets, TLC

\* The per-turn variables hold the locals of main and of get_llm_response.
\* Python keeps a local until it is assigned again, but none of them is read
\* before the next turn assigns it, so each turn starts with them cleared.
VARIABLES
    \* ---- module-level configuration (LLM_QA_CLI.py:9-12)
    API_KEY,            \* os.getenv("GEMINI_API_KEY"): None or a string
    \* ---- main(): the interactive loop (LLM_QA_CLI.py:99-145)
    pc,                 \* "input": blocked in input(); "post": blocked in
                        \* requests.post; "done": loop left; "crashed": an
                        \* exception left main
    turn,               \* how many times input() has returned or raised
    prompts,            \* how many times the prompt "Ask a question: " was issued
    raw_question,       \* the line input() returned in this turn
    processed_question, \* preprocess_question(raw_question) of this turn
    stdout,             \* what the loop body printed since input() last returned
    exit_reason,        \* which branch left the loop
    interrupted_at,     \* where a KeyboardInterrupt was delivered ("" if none)
    loop_exception,     \* the exception main's "except Exception" caught this turn
    \* ---- get_llm_response(): one call (LLM_QA_CLI.py:42-97)
    calls,              \* number of calls of get_llm_response
    sent,               \* the POSTs of this turn's call, in order
    requests_total,     \* number of POSTs of the whole session
    http,               \* what requests.post did in this turn's call
    answer,             \* the value this turn's call returned (NoValue if none)
    raised,             \* the exception class that left this turn's call ("" if none)
    \* ---- the normaliser applied on its own
    npc, S, once, twice

mvars == <<API_KEY, pc, turn, prompts, raw_question, processed_question, stdout,
           exit_reason, interrupted_at, loop_exception, calls, sent,
           requests_total, http, answer, raised>>
nvars == <<npc, S, once, twice>>
vars == <<mvars, nvars>>

----------------------------------------------------------------------------
(* Bounds *)

\* longest raw string given to preprocess_question on its own
MaxLen == 4
\* number of times input() returns or raises in one session
MaxTurns == 3

----------------------------------------------------------------------------
(* Python values *)

PyNone == [t |-> "None"]
PyStr(s) == [t |-> "str", s |-> s]
PyInt(n) == [t |-> "int", n |-> n]
PyList(items) == [t |-> "list", items |-> items]
PyDict(fields) == [t |-> "dict", fields |-> fields]
\* no value: the variable was not assigned
NoValue == [t |-> "unset"]

\* bool(v), as "if not API_KEY" and "if data.get(..) and .." evaluate it
Truthy(v) ==
    CASE v.t = "None" -> FALSE
      [] v.t = "str"  -> v.s # ""
      [] v.t = "int"  -> v.n # 0
      [] v.t = "list" -> Len(v.items) > 0
      [] v.t = "dict" -> DOMAIN v.fields # {}
      [] OTHER        -> FALSE

\* type(v).__name__, as Python's error messages print it
TypeName(v) == IF v.t = "None" THEN "NoneType" ELSE v.t

\* str(v), as print() and f"{..}" format a value
RECURSIVE Digits(_)
Digits(n) == IF n < 10 THEN SubSeq("0123456789", n + 1, n + 1)
             ELSE Digits(n \div 10) \o SubSeq("0123456789", (n % 10) + 1, (n % 10) + 1)
str(v) ==
    CASE v.t = "None" -> "None"
      [] v.t = "str"  -> v.s
      [] v.t = "int"  -> IF v.n < 0 THEN "-" \o Digits(-v.n) ELSE Digits(v.n)
      [] v.t = "list" -> IF Len(v.items) = 0 THEN "[]" ELSE "[...]"
      [] v.t = "dict" -> IF DOMAIN v.fields = {} THEN "{}" ELSE "{...}"
      [] OTHER        -> ""

\* sub in text (Python's substring test)
Contains(text, sub) ==
    \E i \in 1..(Len(text) - Len(sub) + 1) : SubSeq(text, i, i + Len(sub) - 1) = sub

RECURSIVE Repeat(_, _)
\* s * n
Repeat(s, n) == IF n = 0 THEN "" ELSE s \o Repeat(s, n - 1)

----------------------------------------------------------------------------
(* preprocess_question (LLM_QA_CLI.py:14-40) *)

UPPER == "ABCDEFGHIJKLMNOPQRSTUVWXYZ"
LOWER == "abcdefghijklmnopqrstuvwxyz"
DIGITS == "0123456789"

CharsOf(s) == {SubSeq(s, i, i) : i \in 1..Len(s)}

\* the characters \s matches and str.split() splits on, among the ones modelled
Whitespace == {" ", "\t", "\n"}

\* str.lower() on one character
LowerChar(c) ==
    IF c \in CharsOf(UPPER)
    THEN LET i == CHOOSE k \in 1..Len(UPPER) : SubSeq(UPPER, k, k) = c
         IN  SubSeq(LOWER, i, i)
    ELSE c

RECURSIVE lower(_)
\* str.lower()
lower(s) == IF s = "" THEN "" ELSE LowerChar(Head(s)) \o lower(Tail(s))

\* the character class [a-z0-9\s] of the pattern of line 33
Kept(c) == c \in CharsOf(LOWER) \cup CharsOf(DIGITS) \cup Whitespace

RECURSIVE re_sub(_)
\* re.sub(r'[^a-z0-9\s]', '', text)
re_sub(text) ==
    IF text = "" THEN ""
    ELSE (IF Kept(Head(text)) THEN Head(text) ELSE "") \o re_sub(Tail(text))

RECURSIVE SplitFrom(_, _, _)
SplitFrom(s, cur, toks) ==
    LET flushed == IF cur = "" THEN toks ELSE Append(toks, cur)
    IN  IF s = "" THEN flushed
        ELSE IF Head(s) \in Whitespace THEN SplitFrom(Tail(s), "", flushed)
        ELSE SplitFrom(Tail(s), cur \o Head(s), toks)

\* str.split(): the maximal runs of non-whitespace characters
split(s) == SplitFrom(s, "", <<>>)

RECURSIVE join(_, _)
\* sep.join(tokens)
join(sep, tokens) ==
    IF Len(tokens) = 0 THEN ""
    ELSE IF Len(tokens) = 1 THEN tokens[1]
    ELSE tokens[1] \o sep \o join(sep, Tail(tokens))

\* a variant that tokenises before it removes the punctuation
preprocess_question_SplitFirst(question) ==
    IF question = "" THEN ""
    ELSE re_sub(join(" ", split(lower(question))))

preprocess_question(question) ==
    IF question = "" THEN ""
    ELSE join(" ", split(re_sub(lower(question))))

\* str.strip(): without the leading and the trailing whitespace
RECURSIVE lstrip(_)
lstrip(s) == IF s # "" /\ Head(s) \in Whitespace THEN lstrip(Tail(s)) ELSE s
RECURSIVE rstrip(_)
rstrip(s) ==
    IF s # "" /\ SubSeq(s, Len(s), Len(s)) \in Whitespace
    THEN rstrip(SubSeq(s, 1, Len(s) - 1))
    ELSE s
strip(s) == rstrip(lstrip(s))

----------------------------------------------------------------------------
(* Exceptions, named by their class.                                      *)

\* The classes an exception of class cls is an instance of: Python's builtin
\* hierarchy and that of requests.exceptions, where ConnectTimeout derives
\* from both ConnectionError and Timeout and ReadTimeout from Timeout alone.
Bases(cls) ==
    LET exception == {"Exception", "BaseException"}
        request == {"RequestException", "OSError"} \cup exception
    IN  {cls} \cup
        CASE cls = "HTTPError"         -> request
          [] cls = "ConnectionError"   -> request
          [] cls = "SSLError"          -> {"ConnectionError"} \cup request
          [] cls = "Timeout"           -> request
          [] cls = "ConnectTimeout"    -> {"ConnectionError", "Timeout"} \cup request
          [] cls = "ReadTimeout"       -> {"Timeout"} \cup request
          [] cls = "TooManyRedirects"  -> request
          [] cls = "JSONDecodeError"   -> {"InvalidJSONError", "ValueError"} \cup request
          [] cls = "KeyError"          -> {"LookupError"} \cup exception
          [] cls = "IndexError"        -> {"LookupError"} \cup exception
          [] cls = "AttributeError"    -> exception
          [] cls = "TypeError"         -> exception
          [] cls = "EOFError"          -> exception
          [] cls = "KeyboardInterrupt" -> {"BaseException"}
          [] OTHER                     -> exception

\* the least element of a set of numbers, 0 for the empty set
MinOrZero(set) == IF set = {} THEN 0 ELSE CHOOSE i \in set : \A j \in set : i <= j

\* The try statement's choice: the first except clause the exception is an
\* instance of, 0 when none matches and the exception propagates.
FirstMatch(cls, clauses) ==
    MinOrZero({i \in 1..Len(clauses) : clauses[i] \in Bases(cls)})

----------------------------------------------------------------------------
(* Evaluating Python expressions over parsed JSON.  The result of an       *)
(* expression is a value or a raised exception.                            *)

Value(v) == [exc |-> "", msg |-> "", val |-> v]
Raise(cls, msg) == [exc |-> cls, msg |-> msg, val |-> NoValue]

\* repr(key) of a subscript, as KeyError prints it
Repr(k) == IF k.t = "str" THEN "'" \o k.s \o "'" ELSE str(k)

\* obj.get(key, default)
MethodGet(obj, key, default) ==
    IF obj.t # "dict"
    THEN Raise("AttributeError", "'" \o TypeName(obj) \o "' object has no attribute 'get'")
    ELSE IF key \in DOMAIN obj.fields THEN Value(obj.fields[key]) ELSE Value(default)

\* obj[k], k a PyStr or a PyInt that is not negative
Subscript(obj, k) ==
    CASE obj.t = "dict" ->
            IF k.t = "str" /\ k.s \in DOMAIN obj.fields
            THEN Value(obj.fields[k.s])
            ELSE Raise("KeyError", Repr(k))
      [] obj.t = "list" ->
            IF k.t # "int"
            THEN Raise("TypeError", "list indices must be integers or slices, not str")
            ELSE IF k.n + 1 \in 1..Len(obj.items)
            THEN Value(obj.items[k.n + 1])
            ELSE Raise("IndexError", "list index out of range")
      [] obj.t = "str" ->
            IF k.t # "int"
            THEN Raise("TypeError", "string indices must be integers, not 'str'")
            ELSE IF k.n + 1 \in 1..Len(obj.s)
            THEN Value(PyStr(SubSeq(obj.s, k.n + 1, k.n + 1)))
            ELSE Raise("IndexError", "string index out of range")
      [] OTHER ->
            Raise("TypeError", "'" \o TypeName(obj) \o "' object is not subscriptable")

RECURSIVE PathFrom(_, _)
\* r[k1][k2]..., left to right, stopping at the first exception
PathFrom(r, ks) ==
    IF r.exc # "" \/ Len(ks) = 0 THEN r
    ELSE PathFrom(Subscript(r.val, ks[1]), Tail(ks))
Path(obj, ks) == PathFrom(Value(obj), ks)

----------------------------------------------------------------------------
(* What the HTTP library hands back.  requests.post either raises (exc is  *)
(* the class, msg is str(e)) or returns a response (exc = "").             *)

NoOutcome == [exc |-> "", msg |-> "", status_code |-> 0, text |-> ""]
Response(status_code, text) ==
    [exc |-> "", msg |-> "", status_code |-> status_code, text |-> text]
PostRaises(cls, msg) == [exc |-> cls, msg |-> msg, status_code |-> 0, text |-> ""]

\* marks a body that json.loads rejects
NotJSON == [t |-> "notjson"]

Part(v) == PyDict([text |-> v])
Content(parts) == PyDict([parts |-> PyList(parts)])
Candidate(content) == PyDict([content |-> content])
Candidates(cs) == PyDict([candidates |-> PyList(cs)])
ErrorBody(e) == PyDict([error |-> e])
EmptyDict == PyDict(<<>>)

\* Sample response bodies: the raw text and what json.loads makes of it.
Bodies == <<
    [text |-> "{\"candidates\":[{\"content\":{\"parts\":[{\"text\":\"Paris\"}]}}]}",
     data |-> Candidates(<<Candidate(Content(<<Part(PyStr("Paris"))>>))>>)],
    [text |-> "{\"candidates\":[{\"content\":{\"parts\":[{\"text\":\"Paris\"},{\"text\":\"Rome\"}]}},{\"content\":{\"parts\":[{\"text\":\"Oslo\"}]}}]}",
     data |-> Candidates(<<Candidate(Content(<<Part(PyStr("Paris")), Part(PyStr("Rome"))>>)),
                           Candidate(Content(<<Part(PyStr("Oslo"))>>))>>)],
    [text |-> "{\"candidates\":[{\"content\":{\"parts\":[{\"text\":\"\"}]}}]}",
     data |-> Candidates(<<Candidate(Content(<<Part(PyStr(""))>>))>>)],
    [text |-> "{\"candidates\":[{\"content\":{\"parts\":[{\"text\":null}]}}]}",
     data |-> Candidates(<<Candidate(Content(<<Part(PyNone)>>))>>)],
    [text |-> "{\"candidates\":[{\"content\":{\"parts\":[{\"text\":42}]}}]}",
     data |-> Candidates(<<Candidate(Content(<<Part(PyInt(42))>>))>>)],
    [text |-> "{\"candidates\":[{\"content\":{\"parts\":[]}}]}",
     data |-> Candidates(<<Candidate(Content(<<>>))>>)],
    [text |-> "{\"candidates\":[{\"content\":{\"role\":\"model\"}}]}",
     data |-> Candidates(<<Candidate(PyDict([role |-> PyStr("model")]))>>)],
    [text |-> "{\"candidates\":[{\"content\":{\"parts\":[{\"inlineData\":\"x\"}]}}]}",
     data |-> Candidates(<<Candidate(Content(<<PyDict([inlineData |-> PyStr("x")])>>))>>)],
    [text |-> "{\"candidates\":[{\"content\":{\"parts\":{\"text\":\"Paris\"}}}]}",
     data |-> Candidates(<<Candidate(PyDict([parts |-> Part(PyStr("Paris"))]))>>)],
    [text |-> "{\"candidates\":[{\"content\":\"Paris\"}]}",
     data |-> Candidates(<<Candidate(PyStr("Paris"))>>)],
    [text |-> "{\"candidates\":[{\"content\":{}}]}",
     data |-> Candidates(<<Candidate(EmptyDict)>>)],
    [text |-> "{\"candidates\":[{\"finishReason\":\"SAFETY\"}]}",
     data |-> Candidates(<<PyDict([finishReason |-> PyStr("SAFETY")])>>)],
    [text |-> "{\"candidates\":[\"Paris\"]}",
     data |-> Candidates(<<PyStr("Paris")>>)],
    [text |-> "{\"candidates\":[]}",
     data |-> Candidates(<<>>)],
    [text |-> "{\"candidates\":{\"content\":\"Paris\"}}",
     data |-> PyDict([candidates |-> PyDict([content |-> PyStr("Paris")])])],
    [text |-> "{\"candidates\":[{\"content\":{\"parts\":[{\"text\":\"Paris\"}]}}],\"error\":{\"message\":\"partial\"}}",
     data |-> PyDict([candidates |-> PyList(<<Candidate(Content(<<Part(PyStr("Paris"))>>))>>),
                      error |-> PyDict([message |-> PyStr("partial")])])],
    [text |-> "{}",
     data |-> EmptyDict],
    [text |-> "{\"error\":{\"message\":\"API key not valid\"}}",
     data |-> ErrorBody(PyDict([message |-> PyStr("API key not valid")]))],
    [text |-> "{\"error\":{\"message\":null}}",
     data |-> ErrorBody(PyDict([message |-> PyNone]))],
    [text |-> "{\"error\":{\"code\":400}}",
     data |-> ErrorBody(PyDict([code |-> PyInt(400)]))],
    [text |-> "{\"error\":\"quota exceeded\"}",
     data |-> ErrorBody(PyStr("quota exceeded"))],
    [text |-> "{\"error\":null}",
     data |-> ErrorBody(PyNone)],
    [text |-> "[]",
     data |-> PyList(<<>>)],
    [text |-> "\"Paris\"",
     data |-> PyStr("Paris")],
    [text |-> "null",
     data |-> PyNone],
    [text |-> "<html>502 Bad Gateway</html>",
     data |-> NotJSON],
    [text |-> "",
     data |-> NotJSON]
    >>

\* what json.loads makes of a sample body
Parsed(text) == Bodies[CHOOSE k \in DOMAIN Bodies : Bodies[k].text = text].data

JsonResult(data) ==
    IF data = NotJSON
    THEN Raise("JSONDecodeError", "Expecting value: line 1 column 1 (char 0)")
    ELSE Value(data)

\* response.json() (line 79), on the sample bodies
json(text) == JsonResult(Parsed(text))

\* response.raise_for_status() raises for these (line 77)
IsErrorStatus(status_code) == status_code >= 400 /\ status_code < 600

\* the exceptions requests.post raises in the model
PostExceptions == <<
    PostRaises("ConnectionError", "Failed to establish a new connection"),
    PostRaises("SSLError", "certificate verify failed"),
    PostRaises("ConnectTimeout", "Connection to generativelanguage.googleapis.com timed out"),
    PostRaises("ReadTimeout", "Read timed out. (read timeout=30)"),
    PostRaises("TooManyRedirects", "Exceeded 30 redirects.")
    >>

\* the bodies the sample error responses carry
ErrorTexts == {"{\"error\":{\"message\":\"API key not valid\"}}",
               "<html>502 Bad Gateway</html>", ""}

\* every outcome of requests.post, a KeyboardInterrupt apart: an exception,
\* a 200 with each sample body, a 204 without a body, a 4xx or a 5xx
Outcomes ==
    {PostExceptions[i] : i \in DOMAIN PostExceptions}
    \cup {Response(200, Bodies[i].text) : i \in DOMAIN Bodies}
    \cup {Response(204, "")}
    \cup {Response(st, txt) : st \in {400, 404, 429, 500, 503}, txt \in ErrorTexts}

KeyboardInterrupt == PostRaises("KeyboardInterrupt", "")

----------------------------------------------------------------------------
(* get_llm_response (LLM_QA_CLI.py:42-97) *)

MODEL_NAME == "gemini-2.5-flash-preview-09-2025"
API_URL ==
    "https://generativelanguage.googleapis.com/v1beta/models/" \o MODEL_NAME
        \o ":generateContent?key=" \o str(API_KEY)

\* "if not API_KEY" (line 53), with a test for None alone as its variant
API_KEY_is_None == API_KEY = PyNone
not_API_KEY == ~Truthy(API_KEY)

ConfigError == "ERROR: API Key not found. Please set GEMINI_API_KEY in your .env file."

\* the arguments of requests.post (lines 56-76)
Request(full_prompt) ==
    [url |-> API_URL,
     headers |-> [Content_Type |-> "application/json"],
     json |-> [contents |-> <<[parts |-> <<[text |-> full_prompt]>>]>>,
               systemInstruction |-> [parts |-> <<[text |->
                   "You are a concise question-answering system. Answer the user's query directly and accurately, avoiding conversational filler."]>>]],
     timeout |-> 30]

\* line 87, given error_message or the exception its evaluation raised
ApiErrorOf(message) ==
    IF message.exc # "" THEN message
    ELSE Value(PyStr("API Error: " \o str(message.val)))

\* line 86, given data.get('error', {}) or the exception it raised
ErrorMessageOf(error) ==
    IF error.exc # "" THEN error
    ELSE ApiErrorOf(MethodGet(error.val, "message", PyStr("Unknown API Error.")))

\* lines 86-87: the else branch
ApiError(data) == ErrorMessageOf(MethodGet(data, "error", EmptyDict))

\* the right operand of the "and" of line 82, given data['candidates'][0]
ContentOf(first) ==
    IF first.exc # "" THEN first ELSE MethodGet(first.val, "content", PyNone)

\* the condition of line 82, given data.get('candidates'): "and" evaluates
\* its right operand only when the left one is true
ConditionOf(data, cands) ==
    IF cands.exc # "" \/ ~Truthy(cands.val) THEN cands
    ELSE ContentOf(Path(data, <<PyStr("candidates"), PyInt(0)>>))

\* lines 82-87, given the value of the condition or the exception it raised
Branch(data, cond) ==
    IF cond.exc # "" THEN cond
    ELSE IF Truthy(cond.val)
    THEN Path(data, <<PyStr("candidates"), PyInt(0), PyStr("content"),
                      PyStr("parts"), PyInt(0), PyStr("text")>>)
    ELSE ApiError(data)

\* lines 82-87: the answer text of the parsed body, or the API error
Extract(data) == Branch(data, ConditionOf(data, MethodGet(data, "candidates", PyNone)))

\* lines 79-87, given response.json() or the exception it raised
ExtractFrom(parsed) == IF parsed.exc # "" THEN parsed ELSE Extract(parsed.val)

\* lines 76-87: the body of the try statement, given what requests.post did
TryBody(o) ==
    IF o.exc # "" THEN Raise(o.exc, o.msg)
    ELSE IF IsErrorStatus(o.status_code)
    THEN Raise("HTTPError", str(PyInt(o.status_code)) \o " Error")
    ELSE ExtractFrom(json(o.text))

\* the except clauses of lines 89-96 in their order, and a variant whose last
\* clause catches BaseException
get_llm_response_excepts_BaseException ==
    <<"HTTPError", "ConnectionError", "Timeout", "BaseException">>
get_llm_response_excepts == <<"HTTPError", "ConnectionError", "Timeout", "Exception">>

\* the clause of the try statement that handles an exception ("" if none)
ClauseAt(clauses, i) == IF i = 0 THEN "" ELSE clauses[i]
MatchedClause(cls, clauses) == ClauseAt(clauses, FirstMatch(cls, clauses))

\* lines 89-97: the handler of the matched clause, for the exception r that
\* the try body raised after requests.post did o
Handler(o, r, clause) ==
    CASE clause = "HTTPError" ->
            Value(PyStr("HTTP Error: Could not connect to API. Status code: "
                        \o str(PyInt(o.status_code)) \o ". Response: " \o o.text))
      [] clause = "ConnectionError" ->
            Value(PyStr("Connection Error: Failed to connect to the internet or API endpoint."))
      [] clause = "Timeout" ->
            Value(PyStr("Timeout Error: The request took too long to complete."))
      [] clause \in {"Exception", "BaseException"} ->
            Value(PyStr("An unexpected error occurred: " \o r.msg))
      [] OTHER -> r

\* lines 75-97, given the result r of the try body
Handle(o, r) ==
    IF r.exc = "" THEN r
    ELSE Handler(o, r, MatchedClause(r.exc, get_llm_response_excepts))

\* lines 75-97: what the call returns (exc = "") or lets propagate, given what
\* requests.post did
get_llm_response_result(o) == Handle(o, TryBody(o))

----------------------------------------------------------------------------
(* main (LLM_QA_CLI.py:99-145) *)

RECURSIVE CaseVariants(_)
\* the spellings of a lowercase word in every mix of letter cases
CaseVariants(w) ==
    IF w = "" THEN {""}
    ELSE LET i == CHOOSE k \in 1..Len(LOWER) : SubSeq(LOWER, k, k) = Head(w)
         IN  {c \o rest : c \in {Head(w), SubSeq(UPPER, i, i)}, rest \in CaseVariants(Tail(w))}

\* "quit" and "exit" in every letter case
SentinelWords == CaseVariants("quit") \cup CaseVariants("exit")

\* the lines input() returns in the model
Lines ==
    SentinelWords
    \cup {"", " \t ", " quit", "exits", "Capital of France?"}

\* the exceptions input() raises in the model
InputExceptions ==
    {PostRaises("EOFError", "EOF when reading a line"), KeyboardInterrupt}

\* line 113, with a comparison that skips lower() as its variant
IsSentinel_NoLower(line) == line \in {"quit", "exit"}
IsSentinel(line) == lower(line) \in {"quit", "exit"}

Goodbye == "\nExiting Q&A system. Goodbye!"
Thinking == "\n... Thinking ..."
FinalAnswer == " FINAL ANSWER"

DoubleRule == Repeat("=", 60)
SingleRule == Repeat("-", 60)

\* lines 135-139
AnswerBlock(a) == <<"\n" \o DoubleRule, FinalAnswer, DoubleRule, str(a), SingleRule>>

\* line 128
FullPrompt(processed) ==
    "Using the following preprocessed query, provide a concise answer: '" \o processed \o "'"

\* the except clauses of lines 141-144 in their order, and a variant without
\* the second
main_excepts_NoCatchAll == <<"KeyboardInterrupt">>
main_excepts == <<"KeyboardInterrupt", "Exception">>

\* lines 141-145: the handler of the matched clause, for an exception e raised
\* in the loop body after the turn printed `printed`
MainHandler(e, printed, clause) ==
    CASE clause = "KeyboardInterrupt" ->
            /\ stdout' = Append(printed, Goodbye)
            /\ pc' = "done"
            /\ exit_reason' = "interrupt"
            /\ loop_exception' = ""
            /\ UNCHANGED prompts
      [] clause = "Exception" ->
            /\ stdout' = Append(printed,
                    "An unexpected error occurred in the main loop: " \o e.msg)
            /\ pc' = "input"
            /\ prompts' = prompts + 1
            /\ loop_exception' = e.exc
            /\ UNCHANGED exit_reason
      [] OTHER ->
            /\ pc' = "crashed"
            /\ stdout' = printed
            /\ loop_exception' = ""
            /\ UNCHANGED <<prompts, exit_reason>>

\* lines 110-145: an exception reaches the try statement of main
MainExcept(e, printed) == MainHandler(e, printed, MatchedClause(e.exc, main_excepts))

\* lines 111-132: input() returns a line; the turn runs until it blocks in
\* requests.post, or to its end when no request is made
ReadLine(line) ==
    /\ pc = "input"
    /\ turn < MaxTurns
    /\ turn' = turn + 1
    /\ raw_question' = line
    /\ interrupted_at' = ""
    /\ loop_exception' = ""
    /\ UNCHANGED <<API_KEY, nvars>>
    /\ IF IsSentinel(line)
       THEN /\ stdout' = <<Goodbye>>
            /\ pc' = "done"
            /\ exit_reason' = "sentinel"
            /\ processed_question' = ""
            /\ sent' = <<>>
            /\ http' = NoOutcome
            /\ answer' = NoValue
            /\ raised' = ""
            /\ UNCHANGED <<prompts, calls, requests_total>>
       ELSE IF strip(line) = ""
       THEN /\ stdout' = <<>>
            /\ pc' = "input"
            /\ prompts' = prompts + 1
            /\ processed_question' = ""
            /\ sent' = <<>>
            /\ http' = NoOutcome
            /\ answer' = NoValue
            /\ raised' = ""
            /\ UNCHANGED <<exit_reason, calls, requests_total>>
       ELSE LET processed == preprocess_question(line)
                shown == <<"\n[Processed Query]: " \o processed, Thinking>>
            IN  /\ processed_question' = processed
                /\ calls' = calls + 1
                /\ http' = NoOutcome
                /\ raised' = ""
                /\ UNCHANGED exit_reason
                /\ IF not_API_KEY
                   THEN /\ answer' = PyStr(ConfigError)
                        /\ sent' = <<>>
                        /\ stdout' = shown \o AnswerBlock(PyStr(ConfigError))
                        /\ pc' = "input"
                        /\ prompts' = prompts + 1
                        /\ UNCHANGED requests_total
                   ELSE /\ sent' = <<Request(FullPrompt(processed))>>
                        /\ requests_total' = requests_total + 1
                        /\ stdout' = shown
                        /\ pc' = "post"
                        /\ answer' = NoValue
                        /\ UNCHANGED prompts

\* line 111: input() raises (end of input, or Ctrl-C while it waits)
InputRaises(e) ==
    /\ pc = "input"
    /\ turn < MaxTurns
    /\ turn' = turn + 1
    /\ interrupted_at' = IF e.exc = "KeyboardInterrupt" THEN "input" ELSE ""
    /\ MainExcept(e, <<>>)
    /\ raw_question' = ""
    /\ processed_question' = ""
    /\ sent' = <<>>
    /\ http' = NoOutcome
    /\ answer' = NoValue
    /\ raised' = ""
    /\ UNCHANGED <<API_KEY, calls, requests_total, nvars>>

\* lines 132-145: the call ends with r, a returned value or an exception
CallEnds(r) ==
    IF r.exc = ""
    THEN /\ answer' = r.val
         /\ raised' = ""
         /\ stdout' = stdout \o AnswerBlock(r.val)
         /\ pc' = "input"
         /\ prompts' = prompts + 1
         /\ UNCHANGED <<exit_reason, loop_exception>>
    ELSE /\ raised' = r.exc
         /\ UNCHANGED answer
         /\ MainExcept(r, stdout)

\* lines 76-97 and 132-145: requests.post ends with outcome o; the call
\* returns or raises, and the turn runs to its end
CompleteCall(o, where) ==
    /\ pc = "post"
    /\ http' = o
    /\ interrupted_at' = where
    /\ CallEnds(get_llm_response_result(o))
    /\ UNCHANGED <<API_KEY, turn, raw_question, processed_question, calls, sent,
                   requests_total, nvars>>

\* a variant of the call that posts again, up to three times, when the POST failed
HttpOutcome_Retry(o) ==
    IF (o.exc # "" \/ IsErrorStatus(o.status_code)) /\ Len(sent) < 3
    THEN /\ pc = "post"
         /\ http' = o
         /\ sent' = Append(sent, sent[1])
         /\ requests_total' = requests_total + 1
         /\ UNCHANGED <<API_KEY, pc, turn, prompts, raw_question, processed_question,
                        stdout, exit_reason, interrupted_at, loop_exception, calls,
                        answer, raised, nvars>>
    ELSE CompleteCall(o, "")

\* requests.post returns a response or raises an exception of the library
HttpOutcome(o) ==
    /\ o.exc # "KeyboardInterrupt"
    /\ CompleteCall(o, "")

\* Ctrl-C while requests.post is blocked: KeyboardInterrupt is raised there
RequestInterrupt ==
    /\ pc = "post"
    /\ CompleteCall(KeyboardInterrupt, "post")

\* the module is loaded and main has printed its banner and its first prompt
Init ==
    /\ API_KEY \in {PyNone, PyStr(""), PyStr("AIzaSyExampleKey")}
    /\ pc = "input"
    /\ turn = 0
    /\ prompts = 1
    /\ raw_question = ""
    /\ processed_question = ""
    /\ stdout = <<>>
    /\ exit_reason = ""
    /\ interrupted_at = ""
    /\ loop_exception = ""
    /\ calls = 0
    /\ sent = <<>>
    /\ requests_total = 0
    /\ http = NoOutcome
    /\ answer = NoValue
    /\ raised = ""
    /\ npc = "idle"
    /\ S = ""
    /\ once = ""
    /\ twice = ""

Next ==
    \/ \E line \in Lines : ReadLine(line)
    \/ \E e \in InputExceptions : InputRaises(e)
    \/ \E o \in Outcomes : HttpOutcome(o)
    \/ RequestInterrupt

Spec == Init /\ [][Next]_vars

----------------------------------------------------------------------------
(* preprocess_question applied on its own, once and then to its own result *)

\* the characters of the raw strings: a lowercase and an uppercase letter, a
\* digit, two kinds of whitespace and a punctuation mark
\* (a character outside ASCII is, once lowercased, either in [a-z0-9\s] or
\* removed by line 33 as the punctuation mark is)
Alphabet == {"a", "Q", "7", " ", "\t", "?"}

RECURSIVE StringsUpTo(_)
StringsUpTo(n) ==
    IF n = 0 THEN {""}
    ELSE StringsUpTo(n - 1) \cup
         {c \o s : c \in Alphabet, s \in {x \in StringsUpTo(n - 1) : Len(x) = n - 1}}

InitNorm ==
    /\ API_KEY = PyNone
    /\ pc = "input"
    /\ turn = 0
    /\ prompts = 1
    /\ raw_question = ""
    /\ processed_question = ""
    /\ stdout = <<>>
    /\ exit_reason = ""
    /\ interrupted_at = ""
    /\ loop_exception = ""
    /\ calls = 0
    /\ sent = <<>>
    /\ requests_total = 0
    /\ http = NoOutcome
    /\ answer = NoValue
    /\ raised = ""
    /\ npc = "start"
    /\ S \in StringsUpTo(MaxLen)
    /\ once = ""
    /\ twice = ""

Apply ==
    /\ npc = "start"
    /\ once' = preprocess_question(S)
    /\ npc' = "once"
    /\ UNCHANGED <<S, twice, mvars>>

ApplyAgain ==
    /\ npc = "once"
    /\ twice' = preprocess_question(once)
    /\ npc' = "twice"
    /\ UNCHANGED <<S, once, mvars>>

NextNorm == Apply \/ ApplyAgain

SpecNorm == InitNorm /\ [][NextNorm]_vars

----------------------------------------------------------------------------
(* Properties *)

\* the loop body printed line x in this turn
Printed(x) == \E i \in DOMAIN stdout : stdout[i] = x

\* main called get_llm_response in this turn (line 131 is printed right before)
CalledThisTurn == Printed(Thinking)

\* this turn's call has ended and no interrupt was delivered
CallReturnedOrRaised == CalledThisTurn /\ pc # "post" /\ interrupted_at = ""

StartsWith(text, prefix) ==
    Len(text) >= Len(prefix) /\ SubSeq(text, 1, Len(prefix)) = prefix

\* C1: get_llm_response never raises: whatever requests.post does (a response
\* with any body, an HTTP error status, a connection failure, a timeout, any
\* other failure of the library), the call returns a string to its caller.
C1_NeverRaisesReturnsString ==
    CallReturnedOrRaised => (raised = "" /\ answer.t = "str")

\* C2: with API_KEY unset or empty, every call of get_llm_response returns a
\* string containing "API Key not found" and sends no HTTP request.
C2_MissingKeyNoRequest ==
    (API_KEY \in {PyNone, PyStr("")} /\ CalledThisTurn) =>
        /\ pc # "post"
        /\ raised = ""
        /\ answer.t = "str"
        /\ Contains(answer.s, "API Key not found")
        /\ sent = <<>>
        /\ requests_total = 0

C2_Witness ==
    /\ API_KEY = PyStr("")
    /\ CalledThisTurn
    /\ calls = 2
    /\ answer = PyStr(ConfigError)
    /\ requests_total = 0

\* C3: whenever the request fails with a timeout of any kind (a connect
\* timeout as well as a read timeout), the returned string contains
\* "Timeout Error".
C3_TimeoutReported ==
    (pc # "post" /\ http.exc \in {"Timeout", "ConnectTimeout", "ReadTimeout"}) =>
        (answer.t = "str" /\ Contains(answer.s, "Timeout Error"))

\* the parsed body has a first candidate with a content field
HasContentField(d) ==
    /\ d.t = "dict"
    /\ "candidates" \in DOMAIN d.fields
    /\ d.fields.candidates.t = "list"
    /\ Len(d.fields.candidates.items) > 0
    /\ d.fields.candidates.items[1].t = "dict"
    /\ "content" \in DOMAIN d.fields.candidates.items[1].fields

\* the content of the first candidate has a first part with a text
HasFirstFragment(content) ==
    /\ content.t = "dict"
    /\ "parts" \in DOMAIN content.fields
    /\ content.fields.parts.t = "list"
    /\ Len(content.fields.parts.items) > 0
    /\ content.fields.parts.items[1].t = "dict"
    /\ "text" \in DOMAIN content.fields.parts.items[1].fields

FirstContent(d) == d.fields.candidates.items[1].fields.content
FirstFragment(content) == content.fields.parts.items[1].fields.text

\* the error message the provider put in the body, or the generic fallback
ProviderMessage(d) ==
    IF /\ d.t = "dict"
       /\ "error" \in DOMAIN d.fields
       /\ d.fields.error.t = "dict"
       /\ "message" \in DOMAIN d.fields.error.fields
    THEN str(d.fields.error.fields.message)
    ELSE "Unknown API Error."

\* the turn's request got a response whose status is not 4xx/5xx
TransportSuccess ==
    /\ CallReturnedOrRaised
    /\ Len(sent) = 1
    /\ http.exc = ""
    /\ ~IsErrorStatus(http.status_code)

\* C4: on a transport-level success the parsed body alone decides the result:
\* a body whose first candidate has a content field gives exactly the first
\* text fragment of that content, every other body gives "API Error: "
\* followed by the provider's message or by "Unknown API Error.".
C4_ResultDecidedByBody ==
    TransportSuccess =>
        IF HasContentField(Parsed(http.text))
        THEN /\ HasFirstFragment(FirstContent(Parsed(http.text)))
             /\ answer = FirstFragment(FirstContent(Parsed(http.text)))
        ELSE answer = PyStr("API Error: " \o ProviderMessage(Parsed(http.text)))

\* C5: a line that is "quit" or "exit" in any letter case ends the session in
\* that same turn: the loop is left, get_llm_response is not called, no HTTP
\* request is sent, and no further prompt is issued; nothing happens after
\* the loop is left.
C5_SentinelEndsSession ==
    [][/\ pc # "done"
       /\ (turn' = turn + 1 /\ raw_question' \in SentinelWords) =>
            /\ pc' = "done"
            /\ exit_reason' = "sentinel"
            /\ stdout' = <<Goodbye>>
            /\ calls' = calls
            /\ requests_total' = requests_total
            /\ sent' = <<>>
            /\ prompts' = prompts]_vars

C5_Witness ==
    /\ pc = "done"
    /\ exit_reason = "sentinel"
    /\ raw_question = "QuIt"
    /\ turn = 2
    /\ calls = 1
    /\ requests_total = 1

\* a result of the normaliser: lowercase ASCII letters, digits and spaces
\* only, no space at either end, no two spaces in a row
WellFormed(r) ==
    /\ \A i \in 1..Len(r) : SubSeq(r, i, i) \in CharsOf(LOWER) \cup CharsOf(DIGITS) \cup {" "}
    /\ r # "" => (Head(r) # " " /\ SubSeq(r, Len(r), Len(r)) # " ")
    /\ \A i \in 1..(Len(r) - 1) : SubSeq(r, i, i + 1) # "  "

\* C6: preprocess_question(S) holds only lowercase ASCII letters, digits and
\* spaces, its tokens are separated by exactly one space, it has no leading
\* and no trailing space, and it is empty for an empty or whitespace-only S.
C6_NormalFormOfResult ==
    npc \in {"once", "twice"} =>
        /\ WellFormed(once)
        /\ (\A i \in 1..Len(S) : SubSeq(S, i, i) \in {" ", "\t", "\n"}) => once = ""

C6_Witness == npc = "once" /\ S = "Q?\t7" /\ once = "q 7"

\* C7: preprocess_question is idempotent.
C7_Idempotent == npc = "twice" => twice = once

C7_Witness == npc = "twice" /\ S = " a?Q" /\ once = "aq" /\ twice = "aq"

\* C8 as stated: an interrupt that arrives while the request is in flight does
\* not abort it; the call returns its string and the answer is printed before
\* control returns to the loop.
C8_InterruptIgnoredMidRequest ==
    interrupted_at = "post" =>
        /\ raised = ""
        /\ answer.t = "str"
        /\ Printed(FinalAnswer)
        /\ pc = "input"

\* C8 as amended: an interrupt is honoured while the loop waits for input and
\* while the request is in flight; in both cases the loop is left with the
\* goodbye message, and in the second the call is aborted, returns nothing
\* and no answer is printed.
C8_InterruptEndsSession ==
    /\ interrupted_at = "post" =>
            /\ pc = "done"
            /\ exit_reason = "interrupt"
            /\ raised = "KeyboardInterrupt"
            /\ answer = NoValue
            /\ ~Printed(FinalAnswer)
            /\ Printed(Goodbye)
            /\ Len(sent) = 1
    /\ interrupted_at = "input" =>
            /\ pc = "done"
            /\ exit_reason = "interrupt"
            /\ Printed(Goodbye)
            /\ sent = <<>>

C8_Witness ==
    /\ interrupted_at = "post"
    /\ pc = "done"
    /\ raised = "KeyboardInterrupt"
    /\ Len(sent) = 1

ErrorPrefixes ==
    {"ERROR: API Key not found", "HTTP Error:", "Connection Error:", "Timeout Error:",
     "An unexpected error occurred:", "API Error:"}

\* this turn's call returned an error string
ErrorReturned ==
    /\ CallReturnedOrRaised
    /\ raised = ""
    /\ answer.t = "str"
    /\ \E prefix \in ErrorPrefixes : StartsWith(answer.s, prefix)

\* the error of this turn is on the console
ErrorPrinted ==
    IF loop_exception # ""
    THEN \E i \in DOMAIN stdout :
            StartsWith(stdout[i], "An unexpected error occurred in the main loop: ")
    ELSE Printed(answer.s)

\* C10: an error ends its own turn only: after a turn whose call returned an
\* error string, or whose loop body raised an unexpected exception, the error
\* is printed, the process has not crashed and the next prompt is issued; the
\* loop is left only on a "quit"/"exit" line or on an interrupt.
C10_ErrorsEndTheTurnOnly ==
    /\ pc # "crashed"
    /\ (ErrorReturned \/ loop_exception # "") =>
            /\ pc = "input"
            /\ prompts = turn + 1
            /\ ErrorPrinted
    /\ pc = "done" =>
            \/ exit_reason = "sentinel" /\ raw_question \in SentinelWords
            \/ exit_reason = "interrupt" /\ interrupted_at # ""

C10_Witness ==
    /\ turn = 2
    /\ pc = "input"
    /\ prompts = 3
    /\ loop_exception = "EOFError"
    /\ ErrorPrinted
    /\ requests_total = 1

====
